---- MODULE Spec2Model ----
(***************************************************************************)
(* Link lifecycle engine of the cutl URL shortener (server crate).         *)
(*                                                                         *)
(* Strings are sequences of one-character strings, so that the validators  *)
(* inspect them as the Rust code does.  Option<T> is a sequence of length  *)
(* at most one: None is <<>> and Some(x) is <<x>>.                         *)
(***************************************************************************)
EXTENDS Integers, Sequences, FiniteSets, TLC

None == <<>>
Some(x) == <<x>>
is_some(o) == Len(o) = 1
unwrap(o) == o[1]

(***************************************************************************)
(* Bounds of the model.                                                    *)
(***************************************************************************)
\* how many times the wall clock advances in one behaviour
MaxTicks == 2
\* how many HTTP requests are started in one behaviour
MaxRequests == 3

(***************************************************************************)
(* String helpers (std::str).                                              *)
(***************************************************************************)
starts_with(s, p) == Len(s) >= Len(p) /\ SubSeq(s, 1, Len(p)) = p

contains(s, p) ==
    \E i \in 1..(Len(s) - Len(p) + 1) : SubSeq(s, i, i + Len(p) - 1) = p

UPPER == <<"A","B","C","D","E","F","G","H","I","J","K","L","M",
           "N","O","P","Q","R","S","T","U","V","W","X","Y","Z">>
LOWER == <<"a","b","c","d","e","f","g","h","i","j","k","l","m",
           "n","o","p","q","r","s","t","u","v","w","x","y","z">>
DIGITS == <<"0","1","2","3","4","5","6","7","8","9">>

Range(f) == {f[i] : i \in DOMAIN f}

lower_char(c) ==
    IF c \in Range(UPPER)
    THEN LOWER[CHOOSE i \in 1..26 : UPPER[i] = c]
    ELSE c

to_lowercase(s) == [i \in 1..Len(s) |-> lower_char(s[i])]

WHITESPACE == {" ", "\t", "\n", "\r"}

RECURSIVE trim_start(_)
trim_start(s) ==
    IF Len(s) > 0 /\ s[1] \in WHITESPACE THEN trim_start(Tail(s)) ELSE s

RECURSIVE trim_end(_)
trim_end(s) ==
    IF Len(s) > 0 /\ s[Len(s)] \in WHITESPACE
    THEN trim_end(SubSeq(s, 1, Len(s) - 1))
    ELSE s

trim(s) == trim_end(trim_start(s))

\* str::len: the length in bytes.  char::len_utf8 of the characters the
\* model uses is two bytes for the accented letter and one for ASCII
RECURSIVE len(_)
len(s) ==
    LET len_utf8(c) == IF c = "é" THEN 2 ELSE 1
    IN  IF Len(s) = 0 THEN 0 ELSE len_utf8(Head(s)) + len(Tail(s))

\* str::is_char_boundary
is_char_boundary(s, index) == \E n \in 0..Len(s) : len(SubSeq(s, 1, n)) = index

(***************************************************************************)
(* utils.rs                                                                *)
(***************************************************************************)
MIN_TTL_SECONDS == 300
MAX_TTL_SECONDS == 30 * 24 * 60 * 60
DEFAULT_TTL_SECONDS == 7 * 24 * 60 * 60

BASE62_CHARS == DIGITS \o UPPER \o LOWER

\* the pattern without its anchors: some part of the code matches
CODE_REGEX_unanchored(code) ==
    \E i \in 1..Len(code) :
        code[i] \in Range(LOWER) \cup Range(UPPER) \cup Range(DIGITS) \cup {"_", "-"}

\* CODE_REGEX: ^[a-zA-Z0-9_-]{1,32}$
CODE_REGEX(code) ==
    /\ Len(code) >= 1
    /\ Len(code) <= 32
    /\ \A i \in 1..Len(code) :
           code[i] \in Range(LOWER) \cup Range(UPPER) \cup Range(DIGITS) \cup {"_", "-"}

HTTP_PREFIX == <<"h","t","t","p",":","/","/">>
HTTPS_PREFIX == <<"h","t","t","p","s",":","/","/">>
LOCALHOST == <<"l","o","c","a","l","h","o","s","t">>
LOOPBACK == <<"1","2","7",".","0",".","0",".","1">>

\* TRUE is Ok(()), FALSE is Err
validate_url(url) ==
    IF ~starts_with(url, HTTP_PREFIX) /\ ~starts_with(url, HTTPS_PREFIX)
    THEN FALSE
    ELSE LET url_lower == to_lowercase(url)
         IN  IF contains(url_lower, LOCALHOST) \/ contains(url_lower, LOOPBACK)
             THEN FALSE
             ELSE TRUE

\* TRUE is Ok(()), FALSE is Err
validate_code(code) ==
    IF Len(code) = 0 THEN FALSE
    ELSE IF len(code) > 32 THEN FALSE
    ELSE IF ~CODE_REGEX(code) THEN FALSE
    ELSE TRUE

digit_value(c) == (CHOOSE i \in 1..10 : DIGITS[i] = c) - 1

\* i64: a sign and a magnitude of five 16-bit limbs, least significant first,
\* so that a product of an i64 and 86400 is held exactly
LIMB == 65536

\* mag * k + c on limbs, for small k and c
RECURSIVE mul_add(_, _, _)
mul_add(mag, k, c) ==
    IF Len(mag) = 0 THEN <<>>
    ELSE LET x == Head(mag) * k + c
         IN  <<x % LIMB>> \o mul_add(Tail(mag), k, x \div LIMB)

\* the value is in i64::MIN..=i64::MAX
fits_i64(neg, mag) ==
    /\ mag[5] = 0
    /\ \/ mag[4] < LIMB \div 2
       \/ neg /\ mag[4] = LIMB \div 2 /\ mag[3] = 0 /\ mag[2] = 0 /\ mag[1] = 0

\* the low 64 bits of the value read as an i64: what wrapping arithmetic
\* keeps.  neg64 is the two's complement negation of 64 bits
wrapping(neg, mag) ==
    LET neg64(b) == mul_add([i \in 1..4 |-> LIMB - 1 - b[i]], 1, 1)
        low  == SubSeq(mag, 1, 4)
        bits == IF neg THEN neg64(low) ELSE low
    IN  IF bits[4] >= LIMB \div 2
        THEN [neg |-> TRUE, mag |-> neg64(bits) \o <<0>>]
        ELSE [neg |-> FALSE, mag |-> bits \o <<0>>]

\* a * k of line 121-123: the wrapped product, and whether it overflowed
i64_mul(a, k) ==
    LET product == mul_add(a.mag, k, 0)
    IN  [value |-> wrapping(a.neg, product), overflow |-> ~fits_i64(a.neg, product)]

\* the digits of str::parse::<i64>, most significant first: checked
\* multiplication by ten and checked addition of the digit
RECURSIVE digits_value(_, _)
digits_value(neg, ds) ==
    IF Len(ds) = 0 THEN Some(<<0, 0, 0, 0, 0>>)
    ELSE LET front == digits_value(neg, SubSeq(ds, 1, Len(ds) - 1))
         IN  IF ~is_some(front) THEN None
             ELSE LET mag == mul_add(unwrap(front), 10, digit_value(ds[Len(ds)]))
                  IN  IF fits_i64(neg, mag) THEN Some(mag) ELSE None

\* str::parse::<i64>: an optional sign, then one or more ASCII digits, and
\* an error when the value is not an i64
parse_i64(s) ==
    LET signed == Len(s) > 0 /\ s[1] \in {"+", "-"}
        neg    == signed /\ s[1] = "-"
        ds     == IF signed THEN Tail(s) ELSE s
    IN  IF Len(ds) = 0 \/ \E i \in 1..Len(ds) : ds[i] \notin Range(DIGITS)
        THEN None
        ELSE LET mag == digits_value(neg, ds)
             IN  IF is_some(mag) THEN Some([neg |-> neg, mag |-> unwrap(mag)])
                 ELSE None

\* anyhow::Result<i64>; a panic unwinds out of the function instead
Ok(v) == [tag |-> "Ok", v |-> v]
Err(e) == [tag |-> "Err", e |-> e]
Panicked == [tag |-> "Panic"]

\* str::split_at: the two halves at byte index mid, and a panic (None) when
\* mid is not on a character boundary
split_at(s, mid) ==
    IF is_char_boundary(s, mid)
    THEN LET k == CHOOSE n \in 0..Len(s) : len(SubSeq(s, 1, n)) = mid
         IN  Some(<<SubSeq(s, 1, k), SubSeq(s, k + 1, Len(s))>>)
    ELSE None

\* lines 133-144: the range check.  A value below 2^30 in magnitude is
\* compared as an integer of the model, any other by its sign
validate_range(seconds) ==
    LET small == /\ seconds.mag[5] = 0 /\ seconds.mag[4] = 0 /\ seconds.mag[3] = 0
                 /\ seconds.mag[2] < LIMB \div 4
        int   == (IF seconds.neg THEN -1 ELSE 1)
                     * (seconds.mag[2] * LIMB + seconds.mag[1])
    IN  IF (IF small THEN int < MIN_TTL_SECONDS ELSE seconds.neg)
        THEN Err("TTL must be at least 300 seconds")
        ELSE IF (IF small THEN int > MAX_TTL_SECONDS ELSE ~seconds.neg)
        THEN Err("TTL cannot exceed 2592000 seconds")
        ELSE Ok(int)

\* the outcomes of parse_ttl: one, except where a product overflows: a build
\* with overflow checks panics there and a build without them goes on with
\* the wrapped product
parse_ttl(spec) ==
    LET ttl == to_lowercase(trim(spec))
    IN  IF len(ttl) < 2 THEN {Err("Invalid TTL format")}
        ELSE LET halves == split_at(ttl, len(ttl) - 1)
             IN  IF ~is_some(halves) THEN {Panicked}
                 ELSE LET num_str == unwrap(halves)[1]
                          unit    == unwrap(halves)[2]
                          num     == parse_i64(num_str)
                      IN  IF ~is_some(num) THEN {Err("Invalid TTL number")}
                          ELSE IF unit \notin {<<"s">>, <<"m">>, <<"h">>, <<"d">>}
                          THEN {Err("Invalid TTL unit")}
                          ELSE LET n  == unwrap(num)
                                   m1 == i64_mul(n, 60)
                                   h2 == i64_mul(m1.value, 60)
                                   d1 == i64_mul(n, 24)
                                   d2 == i64_mul(d1.value, 60)
                                   d3 == i64_mul(d2.value, 60)
                                   seconds ==
                                       CASE unit = <<"s">> -> [value |-> n, overflow |-> FALSE]
                                         [] unit = <<"m">> -> m1
                                         [] unit = <<"h">> ->
                                                [h2 EXCEPT !.overflow = m1.overflow \/ @]
                                         [] unit = <<"d">> ->
                                                [d3 EXCEPT !.overflow =
                                                     d1.overflow \/ d2.overflow \/ @]
                               IN  IF seconds.overflow
                                   THEN {Panicked, validate_range(seconds.value)}
                                   ELSE {validate_range(seconds.value)}

\* an alphabet of 64 symbols indexed from its second symbol
generate_code_base64(length, idx) ==
    [i \in 1..length |-> (BASE62_CHARS \o <<"_", "-">>)[idx[i] + 2]]

\* generate_code, the code for what the random number generator gave: a
\* length and, for each position, an index into BASE62_CHARS
generate_code_from(length, idx) ==
    [i \in 1..length |-> BASE62_CHARS[idx[i] + 1]]

\* the outputs of generate_code the handlers draw from: base62 strings of
\* length 6 and 7
GEN_A == generate_code_from(6, <<36, 11, 38, 1, 2, 3>>)
GEN_B == generate_code_from(7, <<35, 61, 9, 8, 7, 6, 5>>)
generate_code == {GEN_A, GEN_B}

(***************************************************************************)
(* Inputs the requests draw from.                                          *)
(***************************************************************************)
URL_A   == <<"h","t","t","p","s",":","/","/","a",".","i","o">>
URL_B   == <<"h","t","t","p",":","/","/","b",".","i","o">>
URL_FTP == <<"f","t","p",":","/","/","a",".","i","o">>

TTL_5M == <<"5","m">>
TTL_4M == <<"4","m">>

CODE_BAD == <<"a","@">>

TOKEN == <<"t","k">>
BEARER == <<"B","e","a","r","e","r"," ">>

ShortenRequest(url, code, ttl) == [url |-> url, code |-> code, ttl |-> ttl]

\* ShortenRequest bodies: valid ones (custom or generated code, given or
\* default TTL), and one per validation failure
Bodies ==
    {ShortenRequest(URL_B, Some(GEN_A), None),
     ShortenRequest(URL_A, None, Some(TTL_5M)),
     ShortenRequest(URL_B, None, None),
     ShortenRequest(URL_FTP, None, None),
     ShortenRequest(URL_A, None, Some(TTL_4M)),
     ShortenRequest(URL_A, Some(CODE_BAD), None)}

\* the body of the second of two clients creating at once: the custom code
\* of the first, for another URL
RaceBodies == {ShortenRequest(URL_A, Some(GEN_A), None)}

BodiesOf(p) == IF p = "s1" THEN Bodies ELSE RaceBodies

\* values of the Authorization header (None: header absent)
AuthHeaders == {None, Some(BEARER \o TOKEN), Some(BEARER \o <<"x">>), Some(TOKEN)}

\* codes a Link can be stored under in this model
Codes == generate_code

\* path segments of GET /{code} and GET /analytics/{code}
Paths == Codes

\* country resolved for a visit (None: no GeoIP reader, or no match)
Countries == {None}

ShortenTasks == {"s1", "s2"}
RedirectTasks == {"r1"}
AnalyticsTasks == {"a1"}

\* the wall clock starts at the created_at of the tests; its n-th advance is by ClockStep(n) seconds:
\* one second (two reads of the clock straddle a second), then the minimum
\* TTL (a link created before reaches and passes its expiry)
T0 == 1000000000
ClockStep(n) == IF n % 2 = 1 THEN 1 ELSE MIN_TTL_SECONDS

(***************************************************************************)
(* database.rs: the store.  links is the table links (code PRIMARY KEY),   *)
(* visits the table visits (id AUTOINCREMENT, code REFERENCES links(code)  *)
(* ON DELETE CASCADE; the pool enforces foreign keys).  Of a visit the     *)
(* model keeps the columns its queries read: id, code and country.         *)
(***************************************************************************)
Link(code, original_url, expires_at, created_at) ==
    [code |-> code, original_url |-> original_url,
     expires_at |-> expires_at, created_at |-> created_at]

rows_of(tbl, code) == {l \in tbl : l.code = code}

\* variant: the existence check that never finds a row
code_exists_never(tbl, code) == FALSE

code_exists(tbl, code) == Cardinality(rows_of(tbl, code)) > 0

\* variant: the table without its primary key
insert_link_unkeyed(tbl, code, original_url, expires_at, created_at) ==
    [ok |-> TRUE,
     links |-> tbl \cup {Link(code, original_url, expires_at, created_at)}]

\* INSERT INTO links: the primary key rejects a second row for the code
insert_link(tbl, code, original_url, expires_at, created_at) ==
    IF \E l \in tbl : l.code = code
    THEN [ok |-> FALSE, links |-> tbl]
    ELSE [ok |-> TRUE,
          links |-> tbl \cup {Link(code, original_url, expires_at, created_at)}]

\* variant: the SELECT without its WHERE clause
get_any_link(tbl, code) ==
    IF tbl = {} THEN None ELSE Some(CHOOSE l \in tbl : TRUE)

get_link(tbl, code) ==
    IF rows_of(tbl, code) = {} THEN None
    ELSE Some(CHOOSE l \in rows_of(tbl, code) : TRUE)

\* DELETE FROM links WHERE code = ?
delete_link(tbl, code) ==
    [links |-> tbl \ rows_of(tbl, code),
     deleted |-> Cardinality(rows_of(tbl, code)) > 0]

\* variant: DELETE FROM links WHERE expires_at <= ?
delete_expired_links_inclusive(tbl, t) ==
    [links |-> {l \in tbl : ~(l.expires_at <= t)},
     count |-> Cardinality({l \in tbl : l.expires_at <= t})]

\* variant: the count of the rows of the table, not of the rows deleted
delete_expired_links_counting_rows(tbl, t) ==
    [links |-> {l \in tbl : ~(l.expires_at < t)},
     count |-> Cardinality(tbl)]

\* DELETE FROM links WHERE expires_at < ?
delete_expired_links(tbl, t) ==
    [links |-> {l \in tbl : ~(l.expires_at < t)},
     count |-> Cardinality({l \in tbl : l.expires_at < t})]

\* variant: the foreign key without ON DELETE CASCADE
no_cascade(vs, tbl) == vs

\* ON DELETE CASCADE: the visits whose link row is gone go with it
cascade(vs, tbl) == {v \in vs : \E l \in tbl : l.code = v.code}

\* INSERT INTO visits: the foreign key needs a links row for the code
insert_visit(tbl, vs, id, code, country) ==
    IF ~(\E l \in tbl : l.code = code)
    THEN [ok |-> FALSE, visits |-> vs]
    ELSE [ok |-> TRUE,
          visits |-> vs \cup {[id |-> id, code |-> code, country |-> country]}]

count_visits(vs, code) == Cardinality({v \in vs : v.code = code})

\* variant: WHERE country IS NOT NULL
visits_by_known_country(vs, code) ==
    LET mine      == {v \in vs : v.code = code /\ v.country # None}
        countries == {v.country : v \in mine}
        count(c)  == Cardinality({v \in mine : v.country = c})
        groups    == {<<c, count(c)>> : c \in countries}
    IN  {rows \in [1..Cardinality(groups) -> groups] :
            /\ \A i, j \in DOMAIN rows : i # j => rows[i] # rows[j]
            /\ \A i, j \in DOMAIN rows : i < j => rows[i][2] >= rows[j][2]}

\* SELECT country, COUNT(*) ... GROUP BY country ORDER BY count DESC: the
\* orders of the rows the query may answer in (groups of the same count come
\* in any order)
visits_by_country(vs, code) ==
    LET mine      == {v \in vs : v.code = code}
        countries == {v.country : v \in mine}
        count(c)  == Cardinality({v \in mine : v.country = c})
        groups    == {<<c, count(c)>> : c \in countries}
    IN  {rows \in [1..Cardinality(groups) -> groups] :
            /\ \A i, j \in DOMAIN rows : i # j => rows[i] # rows[j]
            /\ \A i, j \in DOMAIN rows : i < j => rows[i][2] >= rows[j][2]}

(***************************************************************************)
(* models.rs: ApiError.                                                    *)
(***************************************************************************)
ApiError(status, message) == [status |-> status, error |-> message]
bad_request(message)  == ApiError(400, message)
unauthorized(message) == ApiError(401, message)
not_found(message)    == ApiError(404, message)
conflict(message)     == ApiError(409, message)
internal(message)     == ApiError(500, message)

(***************************************************************************)
(* config.rs, middleware.rs, main.rs: the rate limiter.  create_rate_limiter *)
(* configures the limiter; the bucket it configures is kept per client key *)
(* by the limiter's crate: a request takes a token if one is there, a      *)
(* token comes back every per_second seconds, up to burst_size.            *)
(***************************************************************************)
DEFAULT_RATE_LIMIT == 10
DEFAULT_RATE_LIMIT_BURST == 2

Config(rate_limit, rate_limit_burst) ==
    [rate_limit |-> rate_limit, rate_limit_burst |-> rate_limit_burst]

\* the settings RATE_LIMIT and RATE_LIMIT_BURST: the defaults, a token a
\* second, and a bucket of one
RateConfigs ==
    {Config(DEFAULT_RATE_LIMIT, DEFAULT_RATE_LIMIT_BURST), Config(60, 2), Config(30, 1)}

\* the client IPs that SmartIpKeyExtractor finds
ClientKeys == {"ip1", "ip2"}

Routes == {"/shorten", "/api/shorten", "/{code}", "/analytics/{code}"}
RateLimitedRoutes == {"/shorten", "/api/shorten"}

LimiterTasks == {"q1", "q2"}

\* variant: the two arguments taken in the other order
create_rate_limiter_swapped(rate_limit, burst_size) ==
    LET seconds_per_request == 60 \div burst_size
    IN  IF seconds_per_request = 0 \/ rate_limit = 0
        THEN None
        ELSE Some([per_second |-> seconds_per_request, burst_size |-> rate_limit])

\* None: finish() builds no configuration and unwrap() panics
create_rate_limiter(rate_limit, burst_size) ==
    LET seconds_per_request == 60 \div rate_limit
    IN  IF seconds_per_request = 0 \/ burst_size = 0
        THEN None
        ELSE Some([per_second |-> seconds_per_request, burst_size |-> burst_size])

full_bucket(quota, t) == [tokens |-> quota.burst_size, last_refill |-> t]

\* the tokens that came back up to t
refill(bucket, quota, t) ==
    LET earned == (t - bucket.last_refill) \div quota.per_second
        tokens == IF bucket.tokens + earned > quota.burst_size
                  THEN quota.burst_size
                  ELSE bucket.tokens + earned
    IN  [tokens |-> tokens,
         last_refill |-> IF tokens = quota.burst_size THEN t
                         ELSE bucket.last_refill + earned * quota.per_second]

take(bucket) ==
    IF bucket.tokens >= 1
    THEN [ok |-> TRUE, bucket |-> [bucket EXCEPT !.tokens = @ - 1]]
    ELSE [ok |-> FALSE, bucket |-> bucket]

\* one check of a key: a single update of its bucket
check_key(bucket, quota, t) == take(refill(bucket, quota, t))

\* the layer as main builds it at t, every bucket full; window is history:
\* per key, when its bucket was last seen full and the requests admitted
\* since
GovernorLayer(settings, t) ==
    LET config == create_rate_limiter(settings.rate_limit, settings.rate_limit_burst)
    IN  [settings |-> settings,
         config |-> config,
         buckets |-> [k \in ClientKeys |-> full_bucket(unwrap(config), t)],
         waiting |-> [q \in LimiterTasks |-> None],
         window |-> [k \in ClientKeys |-> [start |-> t, admitted |-> 0]]]

(***************************************************************************)
(* State.                                                                  *)
(***************************************************************************)
VARIABLES
    now,            \* the wall clock, now_unix()
    ticks,          \* how often the clock has advanced
    requests,       \* how many requests have been started
    auth_token,     \* AppState.auth_token: Option<String>
    links,          \* table links
    visits,         \* table visits
    next_visit_id,  \* AUTOINCREMENT counter of visits.id
    shortenTask,    \* in-flight POST /shorten and POST /api/shorten
    redirectTask,   \* in-flight GET /{code}
    analyticsTask,  \* in-flight GET /analytics/{code}
    cleanupTask,    \* the background task cleanup_task
    rate_limiter,   \* the rate limiter of the two creation routes
    call,           \* a function of utils.rs or database.rs called on its own
    response,       \* what the step just taken answered, if it answered
    created,        \* history: per stored code, the request that created it
    redirected      \* history: redirects with a recorded visit, per code

vars == <<now, ticks, requests, auth_token, links, visits, next_visit_id,
          shortenTask, redirectTask, analyticsTask, cleanupTask, rate_limiter,
          call, response, created, redirected>>

now_unix == now

NoRows == {}

Idle == [pc |-> "idle"]

NoResponse == [route |-> "", status |-> 0]

\* history kept for the codes that have a row; dropped with the row
keep_created(hist, tbl) ==
    [c \in Codes |-> IF rows_of(tbl, c) = {} THEN None ELSE hist[c]]

keep_redirected(hist, tbl) ==
    [hist EXCEPT !.link = [c \in Codes |->
                              IF rows_of(tbl, c) = {} THEN 0 ELSE hist.link[c]]]

InitStore ==
    /\ now = T0
    /\ ticks = 0
    /\ requests = 0
    /\ auth_token = Some(TOKEN)
    /\ links = {}
    /\ visits = {}
    /\ next_visit_id = 1
    /\ shortenTask = [p \in ShortenTasks |-> Idle]
    /\ redirectTask = [r \in RedirectTasks |-> Idle]
    /\ analyticsTask = [a \in AnalyticsTasks |-> Idle]
    /\ cleanupTask = [pc |-> "tick"]
    /\ response = NoResponse
    /\ created = [c \in Codes |-> None]
    /\ redirected = [code |-> [c \in Codes |-> 0], link |-> [c \in Codes |-> 0]]

NoCall == [fn |-> "", done |-> TRUE]

Init ==
    /\ InitStore
    /\ call = NoCall
    /\ rate_limiter = GovernorLayer(Config(DEFAULT_RATE_LIMIT, DEFAULT_RATE_LIMIT_BURST), T0)

(***************************************************************************)
(* handlers.rs: shorten and shorten_noauth.  A handler is a function from  *)
(* what it reads to the set of its possible outcomes: the task's next      *)
(* position, or its response.  A store call either fails (the pool or the  *)
(* file is unavailable) or answers.  obs is not part of the response: it   *)
(* records what the handler saw.                                           *)
(***************************************************************************)
MAX_ATTEMPTS == 10

\* variant: the check of the prefix alone
authorized_by_prefix(token, header) ==
    IF is_some(token)
    THEN LET auth_header == IF is_some(header) THEN unwrap(header) ELSE <<>>
         IN  starts_with(auth_header, BEARER)
    ELSE TRUE

\* shorten, lines 56-67: the bearer token check
authorized(token, header) ==
    IF is_some(token)
    THEN LET auth_header == IF is_some(header) THEN unwrap(header) ELSE <<>>
         IN  ~(\/ ~starts_with(auth_header, BEARER)
               \/ SubSeq(auth_header, 8, Len(auth_header)) # unwrap(token))
    ELSE TRUE

NewShorten(url, ttl_seconds) ==
    [pc |-> "start", url |-> url, code |-> <<>>, custom |-> FALSE,
     ttl_seconds |-> ttl_seconds, attempts |-> 0, expires_at |-> 0,
     at_check |-> NoRows]

\* a shorten task answers: the response, and what the task saw
shorten_reply(body, t, cause, at_insert, after) ==
    [task |-> Idle,
     resp |-> [route |-> "shorten",
               status |-> IF "status" \in DOMAIN body THEN body.status ELSE 200,
               body |-> body,
               obs |-> [url |-> t.url, code |-> t.code, custom |-> t.custom,
                        ttl_seconds |-> t.ttl_seconds,
                        at_check |-> t.at_check, cause |-> cause,
                        at_insert |-> at_insert, after |-> after]]]

shorten_continue(t) == [task |-> t, resp |-> NoResponse]

\* variant: the loop of 0..=MAX_ATTEMPTS
generate_attempt_inclusive(tbl, t) ==
    LET t1 == [t EXCEPT !.pc = "generate", !.attempts = t.attempts + 1]
    IN  {shorten_reply(internal("Database error"), t1, "unavailable", NoRows, NoRows)}
        \cup
        {IF ~code_exists(tbl, candidate)
         THEN shorten_continue([t1 EXCEPT !.pc = "insert", !.code = candidate,
                                          !.expires_at = now_unix + t.ttl_seconds])
         ELSE IF t1.attempts = MAX_ATTEMPTS + 1
         THEN shorten_reply(
                  internal("Failed to generate unique code after multiple attempts"),
                  t1, "", NoRows, NoRows)
         ELSE shorten_continue(t1)
         : candidate \in generate_code}

\* generate_unique_code, one turn of the loop (lines 200-211), and on
\* success the expiry of line 105
generate_attempt(tbl, t) ==
    LET t1 == [t EXCEPT !.pc = "generate", !.attempts = t.attempts + 1]
    IN  {shorten_reply(internal("Database error"), t1, "unavailable", NoRows, NoRows)}
        \cup
        {IF ~code_exists(tbl, candidate)
         THEN shorten_continue([t1 EXCEPT !.pc = "insert", !.code = candidate,
                                          !.expires_at = now_unix + t.ttl_seconds])
         ELSE IF t1.attempts = MAX_ATTEMPTS
         THEN shorten_reply(
                  internal("Failed to generate unique code after multiple attempts"),
                  t1, "", NoRows, NoRows)
         ELSE shorten_continue(t1)
         : candidate \in generate_code}

\* shorten lines 69-105 (shorten_noauth lines 253-289): validation, the
\* existence check of a custom code or the first generated candidate, and
\* the expiry
create_link(tbl, req) ==
    LET ttls == IF is_some(req.ttl) THEN parse_ttl(unwrap(req.ttl))
                ELSE {Ok(DEFAULT_TTL_SECONDS)}
        t0   == NewShorten(req.url, 0)
    IN  IF ~validate_url(req.url)
        THEN {shorten_reply(bad_request("Invalid URL"), t0, "", NoRows, NoRows)}
        ELSE UNION {
          IF ttl.tag = "Panic"
          THEN {shorten_reply([status |-> 0, error |-> "panicked"], t0, "", NoRows, NoRows)}
          ELSE IF ttl.tag = "Err"
          THEN {shorten_reply(bad_request("Invalid TTL"), t0, "", NoRows, NoRows)}
          ELSE IF is_some(req.code)
          THEN LET custom_code == unwrap(req.code)
                   t1 == [NewShorten(req.url, ttl.v) EXCEPT
                             !.code = custom_code, !.custom = TRUE]
                   t2 == [t1 EXCEPT !.at_check = rows_of(tbl, custom_code)]
               IN  IF ~validate_code(custom_code)
                   THEN {shorten_reply(bad_request("Invalid code"), t1, "", NoRows, NoRows)}
                   ELSE {shorten_reply(internal("Database error"), t2,
                                       "unavailable", NoRows, NoRows),
                         IF code_exists(tbl, custom_code)
                         THEN shorten_reply(conflict("Code already exists"), t2, "",
                                            NoRows, rows_of(tbl, custom_code))
                         ELSE shorten_continue(
                                  [t2 EXCEPT !.pc = "insert",
                                             !.expires_at = now_unix + ttl.v])}
          ELSE generate_attempt(tbl, NewShorten(req.url, ttl.v))
          : ttl \in ttls}

\* variant: the row is stored although the insert is answered as failed
save_link_unanswered(tbl, t) ==
    LET r == insert_link(tbl, t.code, t.url, t.expires_at, now_unix)
    IN  {[links |-> r.links,
          out |-> shorten_reply(internal("Failed to save link"), t, "unavailable",
                                NoRows, rows_of(tbl, t.code))],
         IF r.ok
         THEN [links |-> r.links,
               out |-> shorten_reply([code |-> t.code, expires_at |-> t.expires_at],
                                     t, "", rows_of(tbl, t.code),
                                     rows_of(r.links, t.code))]
         ELSE [links |-> r.links,
               out |-> shorten_reply(internal("Failed to save link"), t, "duplicate",
                                     rows_of(tbl, t.code), rows_of(r.links, t.code))]}

\* shorten lines 108-120: the insert and the response
save_link(tbl, t) ==
    LET r == insert_link(tbl, t.code, t.url, t.expires_at, now_unix)
    IN  {[links |-> tbl,
          out |-> shorten_reply(internal("Failed to save link"), t, "unavailable",
                                NoRows, rows_of(tbl, t.code))],
         IF r.ok
         THEN [links |-> r.links,
               out |-> shorten_reply([code |-> t.code, expires_at |-> t.expires_at],
                                     t, "", rows_of(tbl, t.code),
                                     rows_of(r.links, t.code))]
         ELSE [links |-> r.links,
               out |-> shorten_reply(internal("Failed to save link"), t, "duplicate",
                                     rows_of(tbl, t.code), rows_of(r.links, t.code))]}

ShortenFrame ==
    UNCHANGED <<call, cleanupTask, rate_limiter, now, ticks, auth_token, visits, next_visit_id, redirectTask,
                analyticsTask, redirected>>

Begin(p, out) ==
    /\ requests' = requests + 1
    /\ shortenTask' = [shortenTask EXCEPT ![p] = out.task]
    /\ response' = out.resp
    /\ UNCHANGED <<links, created>>
    /\ ShortenFrame

\* shorten lines 55-105, up to the first answer of the store: the token
\* check, then what shorten_noauth does
shorten_checked(tbl, token, header, req) ==
    IF ~authorized(token, header)
    THEN {shorten_reply(unauthorized("Invalid or missing authorization token"),
                        NewShorten(<<>>, 0), "", NoRows, NoRows)}
    ELSE create_link(tbl, req)

\* POST /shorten
shorten(p) ==
    /\ response = NoResponse
    /\ shortenTask[p].pc = "idle"
    /\ requests < MaxRequests
    /\ \E header \in AuthHeaders, req \in BodiesOf(p) :
          \E out \in shorten_checked(links, auth_token, header, req) : Begin(p, out)

\* POST /api/shorten
shorten_noauth(p) ==
    /\ response = NoResponse
    /\ shortenTask[p].pc = "idle"
    /\ requests < MaxRequests
    /\ \E req \in BodiesOf(p) : \E out \in create_link(links, req) : Begin(p, out)

\* a further turn of the loop of generate_unique_code
generate_unique_code(p) ==
    /\ response = NoResponse
    /\ shortenTask[p].pc = "generate"
    /\ \E out \in generate_attempt(links, shortenTask[p]) :
          /\ shortenTask' = [shortenTask EXCEPT ![p] = out.task]
          /\ response' = out.resp
    /\ UNCHANGED <<requests, links, created>>
    /\ ShortenFrame

\* the insert of either handler reaches the store
insert(p) ==
    /\ response = NoResponse
    /\ shortenTask[p].pc = "insert"
    /\ \E r \in save_link(links, shortenTask[p]) :
          LET t == shortenTask[p]
              inserted == r.out.resp.status = 200
          IN  /\ links' = r.links
              /\ shortenTask' = [shortenTask EXCEPT ![p] = r.out.task]
              /\ response' = r.out.resp
              /\ created' = IF inserted
                            THEN [created EXCEPT ![t.code] =
                                     Some([url |-> t.url, custom |-> t.custom])]
                            ELSE created
    /\ UNCHANGED requests
    /\ ShortenFrame

(***************************************************************************)
(* handlers.rs: redirect.                                                  *)
(***************************************************************************)
\* variant: a minute of grace after the expiry
is_expired_with_grace(t, link) == t > link.expires_at + 60

\* redirect line 151, analytics line 338
is_expired(t, link) == t > link.expires_at

redirect_reply(body, t, visit_ok) ==
    [task |-> Idle,
     resp |-> [route |-> "redirect", status |-> body.status, body |-> body,
               obs |-> [code |-> t.code, link |-> t.link, now |-> t.now,
                        expected |-> t.expected,
                        visit_ok |-> visit_ok]]]

\* Redirect::permanent(&link.original_url): 308 Permanent Redirect
permanent(url) == [status |-> 308, location |-> url]

\* variant: the lookup of whatever code the path holds
redirect_lookup_unchecked(tbl, code, hist_created) ==
    LET t0 == [pc |-> "start", code |-> code, link |-> None, now |-> 0,
               expected |-> None]
        link == get_link(tbl, code)
        t1 == [t0 EXCEPT !.link = link, !.now = now_unix]
    IN  {redirect_reply(internal("Database error"), t0, FALSE),
         IF is_some(link)
         THEN IF is_expired(t1.now, unwrap(link))
              THEN [task |-> [t1 EXCEPT !.pc = "delete"], resp |-> NoResponse]
              ELSE [task |-> [t1 EXCEPT !.pc = "visit"], resp |-> NoResponse]
         ELSE redirect_reply(not_found("Short link not found"), t1, FALSE)}

\* redirect lines 138-151: the length check, the lookup and the expiry check
redirect_lookup(tbl, code, hist_created) ==
    LET t0 == [pc |-> "start", code |-> code, link |-> None, now |-> 0,
               expected |-> None]
    IN  IF len(code) = 0 \/ len(code) > 32
        THEN {redirect_reply(not_found("Short link not found"), t0, FALSE)}
        ELSE LET link == get_link(tbl, code)
                 t1 == [t0 EXCEPT !.link = link, !.now = now_unix,
                                  !.expected = IF code \in DOMAIN hist_created
                                               THEN hist_created[code] ELSE None]
             IN  {redirect_reply(internal("Database error"), t0, FALSE),
                  IF is_some(link)
                  THEN IF is_expired(t1.now, unwrap(link))
                       THEN [task |-> [t1 EXCEPT !.pc = "delete"], resp |-> NoResponse]
                       ELSE [task |-> [t1 EXCEPT !.pc = "visit"], resp |-> NoResponse]
                  ELSE redirect_reply(not_found("Short link not found"), t1, FALSE)}

\* redirect lines 153-155: the lazy delete, its error dropped by .ok()
redirect_expired(tbl, vs, t) ==
    LET d == delete_link(tbl, t.code)
    IN  {[links |-> tbl, visits |-> vs,
          out |-> redirect_reply(not_found("Short link has expired"), t, FALSE)],
         [links |-> d.links, visits |-> cascade(vs, d.links),
          out |-> redirect_reply(not_found("Short link has expired"), t, FALSE)]}

\* variant: the visit insert's error propagated with ?
redirect_visit_strict(tbl, vs, id, t, country) ==
    LET v == insert_visit(tbl, vs, id, t.code, country)
    IN  {[visits |-> vs, recorded |-> FALSE,
          out |-> redirect_reply(internal("Database error"), t, FALSE)],
         IF v.ok
         THEN [visits |-> v.visits, recorded |-> TRUE,
               out |-> redirect_reply(permanent(unwrap(t.link).original_url), t, TRUE)]
         ELSE [visits |-> vs, recorded |-> FALSE,
               out |-> redirect_reply(internal("Database error"), t, FALSE)]}

\* redirect lines 159-188: the visit insert, its error dropped by .ok(), and
\* the redirect
redirect_visit(tbl, vs, id, t, country) ==
    LET v == insert_visit(tbl, vs, id, t.code, country)
    IN  {[visits |-> vs, recorded |-> FALSE,
          out |-> redirect_reply(permanent(unwrap(t.link).original_url), t, FALSE)],
         [visits |-> v.visits, recorded |-> v.ok,
          out |-> redirect_reply(permanent(unwrap(t.link).original_url), t, v.ok)]}

\* GET /{code}: the handler up to the answer of get_link
redirect(r) ==
    /\ response = NoResponse
    /\ redirectTask[r].pc = "idle"
    /\ requests < MaxRequests
    /\ requests' = requests + 1
    /\ \E code \in Paths :
          \E out \in redirect_lookup(links, code, created) :
             /\ redirectTask' = [redirectTask EXCEPT ![r] = out.task]
             /\ response' = out.resp
    /\ UNCHANGED <<call, cleanupTask, rate_limiter, now, ticks, auth_token, links, visits, next_visit_id,
                   shortenTask, analyticsTask, created, redirected>>

\* the lazy delete reaches the store
redirect_delete(r) ==
    /\ response = NoResponse
    /\ redirectTask[r].pc = "delete"
    /\ \E d \in redirect_expired(links, visits, redirectTask[r]) :
          /\ links' = d.links
          /\ visits' = d.visits
          /\ redirectTask' = [redirectTask EXCEPT ![r] = d.out.task]
          /\ response' = d.out.resp
          /\ created' = keep_created(created, d.links)
          /\ redirected' = keep_redirected(redirected, d.links)
    /\ UNCHANGED <<call, cleanupTask, rate_limiter, now, ticks, requests, auth_token, next_visit_id,
                   shortenTask, analyticsTask>>

\* the visit insert reaches the store
redirect_record(r) ==
    /\ response = NoResponse
    /\ redirectTask[r].pc = "visit"
    /\ \E country \in Countries :
       \E v \in redirect_visit(links, visits, next_visit_id, redirectTask[r], country) :
          LET code == redirectTask[r].code
          IN  /\ visits' = v.visits
              /\ next_visit_id' = IF v.recorded THEN next_visit_id + 1 ELSE next_visit_id
              /\ redirectTask' = [redirectTask EXCEPT ![r] = v.out.task]
              /\ response' = v.out.resp
              /\ redirected' =
                    IF v.out.resp.obs.visit_ok
                    THEN [code |-> [redirected.code EXCEPT ![code] = @ + 1],
                          link |-> [redirected.link EXCEPT ![code] = @ + 1]]
                    ELSE redirected
    /\ UNCHANGED <<call, cleanupTask, rate_limiter, now, ticks, requests, auth_token, links, shortenTask,
                   analyticsTask, created>>

(***************************************************************************)
(* handlers.rs: analytics.                                                 *)
(***************************************************************************)
analytics_reply(body, t) ==
    [task |-> Idle,
     resp |-> [route |-> "analytics",
               status |-> IF "status" \in DOMAIN body THEN body.status ELSE 200,
               body |-> body,
               obs |-> [code |-> t.code, link |-> t.link, now |-> t.now]]]

\* variant: the lookup without the expiry check
analytics_lookup_unexpiring(tbl, token, header, code) ==
    LET t0 == [pc |-> "start", code |-> code, link |-> None, now |-> 0]
    IN  IF ~authorized(token, header)
        THEN {analytics_reply(unauthorized("Invalid or missing authorization token"), t0)}
        ELSE LET link == get_link(tbl, code)
                 t1 == [t0 EXCEPT !.link = link, !.now = now_unix]
             IN  {analytics_reply(internal("Database error"), t0),
                  IF ~is_some(link)
                  THEN analytics_reply(not_found("Short link not found"), t1)
                  ELSE [task |-> [t1 EXCEPT !.pc = "count"], resp |-> NoResponse]}

\* analytics lines 318-340: the token check, the lookup and the expiry check
analytics_lookup(tbl, token, header, code) ==
    LET t0 == [pc |-> "start", code |-> code, link |-> None, now |-> 0]
    IN  IF ~authorized(token, header)
        THEN {analytics_reply(unauthorized("Invalid or missing authorization token"), t0)}
        ELSE LET link == get_link(tbl, code)
                 t1 == [t0 EXCEPT !.link = link, !.now = now_unix]
             IN  {analytics_reply(internal("Database error"), t0),
                  IF ~is_some(link)
                  THEN analytics_reply(not_found("Short link not found"), t1)
                  ELSE IF is_expired(t1.now, unwrap(link))
                  THEN analytics_reply(not_found("Short link has expired"), t1)
                  ELSE [task |-> [t1 EXCEPT !.pc = "count"], resp |-> NoResponse]}

\* analytics lines 342-381: the reads of the visits and the report
analytics_report(vs, t) ==
    {analytics_reply(internal("Database error"), t)}
    \cup {analytics_reply([code |-> unwrap(t.link).code,
                           original_url |-> unwrap(t.link).original_url,
                           created_at |-> unwrap(t.link).created_at,
                           expires_at |-> unwrap(t.link).expires_at,
                           total_visits |-> count_visits(vs, t.code),
                           visits_by_country |-> rows], t) :
            rows \in visits_by_country(vs, t.code)}

\* GET /analytics/{code}: the handler up to the answer of get_link
analytics(a) ==
    /\ response = NoResponse
    /\ analyticsTask[a].pc = "idle"
    /\ requests < MaxRequests
    /\ requests' = requests + 1
    /\ \E header \in AuthHeaders, code \in Paths :
          \E out \in analytics_lookup(links, auth_token, header, code) :
             /\ analyticsTask' = [analyticsTask EXCEPT ![a] = out.task]
             /\ response' = out.resp
    /\ UNCHANGED <<call, cleanupTask, rate_limiter, now, ticks, auth_token, links, visits, next_visit_id,
                   shortenTask, redirectTask, created,
                   redirected>>

\* the reads of the visits reach the store
analytics_read(a) ==
    /\ response = NoResponse
    /\ analyticsTask[a].pc = "count"
    /\ \E out \in analytics_report(visits, analyticsTask[a]) :
          /\ analyticsTask' = [analyticsTask EXCEPT ![a] = out.task]
          /\ response' = out.resp
    /\ UNCHANGED <<call, cleanupTask, rate_limiter, now, ticks, requests, auth_token, links, visits, next_visit_id,
                   shortenTask, redirectTask, created,
                   redirected>>

(***************************************************************************)
(* main.rs: cleanup_task.  The timer's period is not modelled: a tick may  *)
(* come at any time.  One turn of the loop is one step: the clock is read  *)
(* and the bulk delete runs with that reading.                             *)
(***************************************************************************)
\* variant: the error of the bulk delete ends the task
cleanup_sweep_fatal(tbl, vs, t) ==
    LET d == delete_expired_links(tbl, t)
    IN  {[links |-> tbl, visits |-> vs, task |-> [pc |-> "done"],
          resp |-> [route |-> "sweeper", status |-> 0, ok |-> FALSE, count |-> 0,
                    now |-> t, before |-> tbl]],
         [links |-> d.links, visits |-> cascade(vs, d.links), task |-> [pc |-> "tick"],
          resp |-> [route |-> "sweeper", status |-> 0, ok |-> TRUE,
                    count |-> d.count, now |-> t, before |-> tbl]]}

\* cleanup_task lines 129-140: Err is logged, Ok(count) is logged if count > 0,
\* and either way the loop goes back to the timer
cleanup_sweep(tbl, vs, t) ==
    LET d == delete_expired_links(tbl, t)
    IN  {[links |-> tbl, visits |-> vs, task |-> [pc |-> "tick"],
          resp |-> [route |-> "sweeper", status |-> 0, ok |-> FALSE, count |-> 0,
                    now |-> t, before |-> tbl]],
         [links |-> d.links, visits |-> cascade(vs, d.links), task |-> [pc |-> "tick"],
          resp |-> [route |-> "sweeper", status |-> 0, ok |-> TRUE,
                    count |-> d.count, now |-> t, before |-> tbl]]}

\* one turn of the loop of cleanup_task
cleanup_task ==
    /\ response = NoResponse
    /\ cleanupTask.pc = "tick"
    /\ \E d \in cleanup_sweep(links, visits, now_unix) :
          /\ links' = d.links
          /\ visits' = d.visits
          /\ cleanupTask' = d.task
          /\ response' = d.resp
          /\ created' = keep_created(created, d.links)
          /\ redirected' = keep_redirected(redirected, d.links)
    /\ UNCHANGED <<call, rate_limiter, now, ticks, requests, auth_token, next_visit_id,
                   shortenTask, redirectTask, analyticsTask>>

\* the clock advances
Tick ==
    /\ response = NoResponse
    /\ ticks < MaxTicks
    /\ now' = now + ClockStep(ticks + 1)
    /\ ticks' = ticks + 1
    /\ response' = NoResponse
    /\ UNCHANGED <<call, cleanupTask, rate_limiter, requests, auth_token, links, visits, next_visit_id,
                   shortenTask, redirectTask, analyticsTask,
                   created, redirected>>

\* the response of the step just taken goes out to the client (or the
\* sweeper's outcome to the log)
respond ==
    /\ response # NoResponse
    /\ response' = NoResponse
    /\ UNCHANGED <<call, cleanupTask, rate_limiter, now, ticks, requests, auth_token, links, visits, next_visit_id,
                   shortenTask, redirectTask, analyticsTask,
                   created, redirected>>

(***************************************************************************)
(* main.rs: the router.  The limiter is a layer of the two creation routes *)
(* only; a request of another route goes to its handler unchecked.         *)
(***************************************************************************)
limiter_reply(req, admitted, t) ==
    [route |-> "rate_limiter", status |-> IF admitted THEN 0 ELSE 429,
     admitted |-> admitted, key |-> req.key, path |-> req.path, now |-> t]

\* variant: the limiter layered over the whole router
layer_of_all_routes(rl, req, t) ==
    LET quota == unwrap(rl.config)
        filled == refill(rl.buckets[req.key], quota, t)
        r == check_key(rl.buckets[req.key], quota, t)
        w == IF filled.tokens = quota.burst_size
             THEN [start |-> t, admitted |-> 0]
             ELSE rl.window[req.key]
    IN  [rl |-> [rl EXCEPT !.buckets[req.key] = r.bucket,
                           !.window[req.key] =
                               IF r.ok THEN [w EXCEPT !.admitted = @ + 1] ELSE w],
         resp |-> limiter_reply(req, r.ok, t)]

\* the layer's answer to a request: the limiter and what it lets through
layer(rl, req, t) ==
    IF req.path \in RateLimitedRoutes
    THEN LET quota == unwrap(rl.config)
             filled == refill(rl.buckets[req.key], quota, t)
             r == check_key(rl.buckets[req.key], quota, t)
             w == IF filled.tokens = quota.burst_size
                  THEN [start |-> t, admitted |-> 0]
                  ELSE rl.window[req.key]
         IN  [rl |-> [rl EXCEPT !.buckets[req.key] = r.bucket,
                                !.window[req.key] =
                                    IF r.ok THEN [w EXCEPT !.admitted = @ + 1] ELSE w],
              resp |-> limiter_reply(req, r.ok, t)]
    ELSE [rl |-> rl, resp |-> limiter_reply(req, TRUE, t)]

RouterFrame ==
    UNCHANGED <<call, cleanupTask, now, ticks, auth_token, links, visits, next_visit_id,
                shortenTask, redirectTask, analyticsTask, created, redirected>>

\* a request of a client reaches the router
arrive(q) ==
    /\ response = NoResponse
    /\ ~is_some(rate_limiter.waiting[q])
    /\ requests < MaxRequests
    /\ requests' = requests + 1
    /\ \E key \in ClientKeys, path \in Routes :
          rate_limiter' = [rate_limiter EXCEPT
                              !.waiting[q] = Some([key |-> key, path |-> path])]
    /\ UNCHANGED response
    /\ RouterFrame

\* the router passes the request through the layers of its route
admit(q) ==
    /\ response = NoResponse
    /\ is_some(rate_limiter.waiting[q])
    /\ LET out == layer(rate_limiter, unwrap(rate_limiter.waiting[q]), now_unix)
       IN  /\ rate_limiter' = [out.rl EXCEPT !.waiting[q] = None]
           /\ response' = out.resp
    /\ UNCHANGED requests
    /\ RouterFrame

\* the lifecycle of a link: one client creating, one following links, one
\* reading analytics, and the sweeper
Next ==
    \/ respond
    \/ shorten("s1")
    \/ shorten_noauth("s1")
    \/ generate_unique_code("s1")
    \/ insert("s1")
    \/ \E r \in RedirectTasks : redirect(r)
    \/ \E r \in RedirectTasks : redirect_delete(r)
    \/ \E r \in RedirectTasks : redirect_record(r)
    \/ \E a \in AnalyticsTasks : analytics(a)
    \/ \E a \in AnalyticsTasks : analytics_read(a)
    \/ cleanup_task
    \/ Tick

Spec == Init /\ [][Next]_vars

\* concurrent creation: two clients creating (the second with a custom
\* code), and the sweeper
NextRace ==
    \/ respond
    \/ shorten("s1")
    \/ shorten_noauth("s1")
    \/ generate_unique_code("s1")
    \/ insert("s1")
    \/ shorten("s2")
    \/ shorten_noauth("s2")
    \/ insert("s2")
    \/ \E r \in RedirectTasks : redirect(r)
    \/ \E r \in RedirectTasks : redirect_delete(r)
    \/ \E r \in RedirectTasks : redirect_record(r)
    \/ cleanup_task
    \/ Tick

SpecRace == Init /\ [][NextRace]_vars

\* the rate limiter alone: clients' requests reaching the router, under one
\* of the settings
InitRL ==
    /\ InitStore
    /\ call = NoCall
    /\ \E settings \in RateConfigs : rate_limiter = GovernorLayer(settings, T0)

NextRL ==
    \/ respond
    \/ \E q \in LimiterTasks : arrive(q)
    \/ \E q \in LimiterTasks : admit(q)
    \/ Tick

SpecRL == InitRL /\ [][NextRL]_vars


(***************************************************************************)
(* The sweeper alone, over a store that already holds links when the       *)
(* process starts (the database file outlives the process): no request     *)
(* arrives.  The timer of cleanup_task fires again and again (weak         *)
(* fairness of the loop's turn); SpecSweepOk adds that the bulk delete     *)
(* succeeds again and again.                                               *)
(***************************************************************************)
\* the rows the file may hold for a code: expiring now, in five minutes, in a week
StoredLinks(c) ==
    {Link(c, URL_B, T0, T0 - MIN_TTL_SECONDS),
     Link(c, URL_B, T0 + MIN_TTL_SECONDS, T0),
     Link(c, URL_A, T0 + 604800, T0)}

InitSweep ==
    /\ now = T0
    /\ ticks = 0
    /\ requests = 0
    /\ auth_token = Some(TOKEN)
    /\ links \in {tbl \in SUBSET (UNION {StoredLinks(c) : c \in Codes}) :
                     \A c \in Codes : Cardinality(rows_of(tbl, c)) <= 1}
    /\ visits = {}
    /\ next_visit_id = 1
    /\ shortenTask = [p \in ShortenTasks |-> Idle]
    /\ redirectTask = [r \in RedirectTasks |-> Idle]
    /\ analyticsTask = [a \in AnalyticsTasks |-> Idle]
    /\ cleanupTask = [pc |-> "tick"]
    /\ response = NoResponse
    /\ created = [c \in Codes |->
                    IF rows_of(links, c) = {} THEN None
                    ELSE Some([url |-> (CHOOSE l \in rows_of(links, c) : TRUE).original_url,
                               custom |-> FALSE])]
    /\ redirected = [code |-> [c \in Codes |-> 0], link |-> [c \in Codes |-> 0]]
    /\ call = NoCall
    /\ rate_limiter = GovernorLayer(Config(DEFAULT_RATE_LIMIT, DEFAULT_RATE_LIMIT_BURST), T0)

NextSweep ==
    \/ respond
    \/ cleanup_task
    \/ Tick

\* a turn of the loop whose bulk delete succeeds
cleanup_ok == cleanup_task /\ response'.ok

SpecSweep ==
    InitSweep /\ [][NextSweep]_vars /\ WF_vars(respond) /\ WF_vars(cleanup_task)

SpecSweepOk == SpecSweep /\ SF_vars(cleanup_ok)

\* a code used again: the store holds a link that expires as the process
\* starts; a client asks for its code as a custom code, another follows the
\* code, and the sweeper runs
InitReuse ==
    /\ InitSweep
    /\ Link(GEN_A, URL_B, T0, T0 - MIN_TTL_SECONDS) \in links

NextReuse ==
    \/ respond
    \/ shorten("s2")
    \/ shorten_noauth("s2")
    \/ insert("s2")
    \/ \E r \in RedirectTasks : redirect(r)
    \/ \E r \in RedirectTasks : redirect_delete(r)
    \/ \E r \in RedirectTasks : redirect_record(r)
    \/ cleanup_task
    \/ Tick

SpecReuse == InitReuse /\ [][NextReuse]_vars

(***************************************************************************)
(* The functions of utils.rs called on their own: call is the call, with  *)
(* its argument, and after the step that runs it, with what it returned.   *)
(***************************************************************************)
\* the TTL texts parse_ttl is called with.  TtlText is a text and how it
\* reads: whether its numeric part is a number, that number (huge: a number
\* of more than seven digits, n is not used), and its last character
TtlInputs ==
    LET RECURSIVE to_string(_)
        to_string(n) ==
            IF n < 10 THEN <<DIGITS[n + 1]>>
            ELSE to_string(n \div 10) \o <<DIGITS[(n % 10) + 1]>>
        upper_char(c) == UPPER[CHOOSE i \in 1..Len(LOWER) : LOWER[i] = c]
        TtlText(ttl, parses, huge, n, unit) ==
            [ttl |-> ttl, parses |-> parses, huge |-> huge, n |-> n, unit |-> unit]
        TtlUnits == {"s", "m", "h", "d"}
        TtlCounts == {0, 1, 4, 5, 6, 29, 30, 31, 60, 299, 300, 301, 719, 720, 721}
        I64_MAX == <<"9","2","2","3","3","7","2","0","3","6","8","5","4","7","7","5","8","0","7">>
        I64_OVER == <<"9","2","2","3","3","7","2","0","3","6","8","5","4","7","7","5","8","0","8">>
        WRAPS_DAYS == <<"1","4","4","1","1","5","1","8","8","0","7","5","8","5","5","8","7","4">>
        WRAPS_MINUTES == <<"4","6","1","1","6","8","6","0","1","8","4","2","7","3","8","7","9","0","9">>
        WRAPS_NEGATIVE == <<"-","7","6","8","6","1","4","3","3","6","4","0","4","5","6","4","6","5","0","0">>
    IN
    {TtlText(to_string(n) \o <<u>>, TRUE, FALSE, n, u) :
        n \in TtlCounts, u \in TtlUnits \cup {"w"}}
    \cup {TtlText(to_string(n) \o <<"s">>, TRUE, FALSE, n, "s") :
            n \in {3600, 86400, 2591999, 2592000, 2592001}}
    \cup {TtlText(to_string(n) \o <<"m">>, TRUE, FALSE, n, "m") :
            n \in {43199, 43200, 43201}}
    \cup {TtlText(<<" ">> \o to_string(n) \o <<upper_char(u), " ">>, TRUE, FALSE, n, u) :
            n \in {4, 5, 30, 31}, u \in TtlUnits}
    \cup {TtlText(<<"+">> \o to_string(n) \o <<u>>, TRUE, FALSE, n, u) :
            n \in {4, 5}, u \in TtlUnits}
    \cup {TtlText(<<"-">> \o to_string(n) \o <<u>>, TRUE, FALSE, 0 - n, u) :
            n \in {5, 300}, u \in TtlUnits}
    \cup {TtlText(<<"0">> \o to_string(n) \o <<u>>, TRUE, FALSE, n, u) :
            n \in {4, 5}, u \in TtlUnits}
    \cup {TtlText(<<>>, FALSE, FALSE, 0, ""),
          TtlText(<<"m">>, FALSE, FALSE, 0, "m"),
          TtlText(<<"5">>, FALSE, FALSE, 0, "5"),
          TtlText(<<"a","b","c">>, FALSE, FALSE, 0, "c"),
          TtlText(<<"5"," ","m">>, FALSE, FALSE, 0, "m"),
          TtlText(<<"5",".","5","m">>, FALSE, FALSE, 0, "m"),
          TtlText(<<"é","5">>, FALSE, FALSE, 0, "5"),
          TtlText(<<"é">>, FALSE, FALSE, 0, "é"),
          TtlText(<<"5","é">>, TRUE, FALSE, 5, "é"),
          TtlText(<<"3","0","0","é">>, TRUE, FALSE, 300, "é")}
    \cup {TtlText(big \o <<u>>, TRUE, TRUE, 0, u) :
            big \in {I64_MAX, WRAPS_DAYS, WRAPS_MINUTES, WRAPS_NEGATIVE}, u \in TtlUnits}
    \cup {TtlText(I64_OVER \o <<u>>, FALSE, TRUE, 0, u) : u \in TtlUnits}

\* the codes validate_code is called with: up to MaxCodeLen times one
\* character, and the same with another character first or last
MaxCodeLen == 33

CodeInputs ==
    LET fill(n, c) == [i \in 1..n |-> c]
    IN  {fill(n, c) : n \in 0..MaxCodeLen, c \in {"a", "Z", "0", "_", "-", "é"}}
        \cup {<<d>> \o fill(n, c) : n \in 0..(MaxCodeLen - 1), c \in {"a", "_"},
                                    d \in {"@", " ", "é", "/", "-", "9"}}
        \cup {fill(n, c) \o <<d>> : n \in 0..(MaxCodeLen - 1), c \in {"Z", "-"},
                                    d \in {"@", " ", "é", ".", "_", "z"}}

\* the URLs validate_url is called with: a scheme prefix, a host, and the
\* rest (port, path, query)
UrlInputs ==
    LET schemes == {HTTP_PREFIX, HTTPS_PREFIX, <<"f","t","p",":","/","/">>, <<"H","T","T","P",":","/","/">>, <<>>}
        hosts   == {<<"a",".","i","o">>, LOCALHOST, <<"L","o","c","a","l","H","o","s","t">>, LOOPBACK, LOOPBACK \o <<"0">>,
                    LOCALHOST \o <<".","a",".","i","o">>, <<"m","y">> \o LOCALHOST, <<"1","2","7",".","0",".","0",".","2">>}
        rests   == {<<>>, <<"/">>, <<":","8","0">>, <<"/">> \o LOCALHOST,
                    <<"/">> \o <<"L","o","c","a","l","H","o","s","t">>, <<"?","q","=">> \o LOOPBACK, <<"/","x">>}
    IN  {[url |-> scheme \o host \o rest, scheme |-> scheme, host |-> host, rest |-> rest] :
            scheme \in schemes, host \in hosts, rest \in rests}

\* the tables visits_by_country is called on: up to MaxVisits visits, each
\* of one of two codes and from one of two countries or from none
MaxVisits == 4

VisitInputs ==
    LET countries == {None, Some("US"), Some("ID")}
    IN  UNION {{{[id |-> i, code |-> code[i], country |-> country[i]] : i \in 1..n} :
                   code \in [1..n -> Codes], country \in [1..n -> countries]} :
               n \in 0..MaxVisits}

NewCall(fn, arg) == [fn |-> fn, arg |-> arg, done |-> FALSE, ret |-> None]

CallFrame ==
    UNCHANGED <<cleanupTask, now, ticks, requests, auth_token, links, visits,
                next_visit_id,
                shortenTask, redirectTask, analyticsTask, rate_limiter, response,
                created, redirected>>

\* parse_ttl(ttl)
call_parse_ttl ==
    /\ call.fn = "parse_ttl"
    /\ ~call.done
    /\ \E ret \in parse_ttl(call.arg.ttl) :
           call' = [call EXCEPT !.done = TRUE, !.ret = ret]
    /\ CallFrame

\* validate_code(code)
call_validate_code ==
    /\ call.fn = "validate_code"
    /\ ~call.done
    /\ call' = [call EXCEPT !.done = TRUE, !.ret = validate_code(call.arg)]
    /\ CallFrame

\* validate_url(url)
call_validate_url ==
    /\ call.fn = "validate_url"
    /\ ~call.done
    /\ call' = [call EXCEPT !.done = TRUE, !.ret = validate_url(call.arg.url)]
    /\ CallFrame

\* generate_code(): the length is drawn from 6..=8 and each index from
\* 0..BASE62_CHARS.len(); the indices drawn start anywhere and go on in
\* steps of 0, 1 or 7
call_generate_code ==
    /\ call.fn = "generate_code"
    /\ ~call.done
    /\ \E length \in 6..8, start \in 0..(Len(BASE62_CHARS) - 1), step \in {0, 1, 7} :
           LET idx == [i \in 1..length |-> (start + step * (i - 1)) % Len(BASE62_CHARS)]
           IN  call' = [call EXCEPT !.done = TRUE,
                                    !.ret = generate_code_from(length, idx)]
    /\ CallFrame

\* shorten(state, headers, req) up to its first await, on the store and the
\* token of the state
call_shorten ==
    /\ call.fn = "shorten"
    /\ ~call.done
    /\ \E out \in shorten_checked(links, auth_token, call.arg.header, call.arg.req) :
           call' = [call EXCEPT !.done = TRUE, !.ret = out]
    /\ CallFrame

\* visits_by_country(pool, code)
call_visits_by_country ==
    /\ call.fn = "visits_by_country"
    /\ ~call.done
    /\ \E rows \in visits_by_country(call.arg.visits, call.arg.code) :
           call' = [call EXCEPT !.done = TRUE, !.ret = rows]
    /\ CallFrame

\* redirect(code) up to the answer of the lookup, over a store
call_redirect ==
    /\ call.fn = "redirect"
    /\ ~call.done
    /\ call' = [call EXCEPT !.done = TRUE,
                            !.ret = redirect_lookup(call.arg.links, call.arg.code, created)]
    /\ CallFrame

\* create_rate_limiter(rate_limit, burst_size)
call_create_rate_limiter ==
    /\ call.fn = "create_rate_limiter"
    /\ ~call.done
    /\ call' = [call EXCEPT !.done = TRUE,
                            !.ret = create_rate_limiter(call.arg.rate_limit,
                                                        call.arg.rate_limit_burst)]
    /\ CallFrame

\* the settings RATE_LIMIT of 1 to MaxRateLimit requests a minute, with a
\* bucket of one or of the default size
MaxRateLimit == 61

RateInputs ==
    {Config(rate_limit, burst) : rate_limit \in 1..MaxRateLimit,
                                 burst \in {1, DEFAULT_RATE_LIMIT_BURST}}

\* the paths of GET /{code}: the texts of CodeInputs and the generated codes,
\* over an empty store and over a store that holds a link
PathInputs ==
    {[links |-> tbl, code |-> code] :
        tbl \in {{}, {Link(GEN_A, URL_A, T0 + MIN_TTL_SECONDS, T0)}},
        code \in CodeInputs \cup Codes}

CallInputs ==
    {NewCall("parse_ttl", ttl) : ttl \in TtlInputs}
    \cup {NewCall("visits_by_country", [visits |-> vs, code |-> GEN_A]) : vs \in VisitInputs}
    \cup {NewCall("shorten", [header |-> header, req |-> req]) :
            header \in AuthHeaders \cup {Some(BEARER), Some(to_lowercase(BEARER) \o TOKEN)},
            req \in Bodies}
    \cup {NewCall("generate_code", <<>>)}
    \cup {NewCall("validate_url", url) : url \in UrlInputs}
    \cup {NewCall("validate_code", code) : code \in CodeInputs}
    \cup {NewCall("redirect", path) : path \in PathInputs}
    \cup {NewCall("create_rate_limiter", settings) : settings \in RateInputs}

InitUtils ==
    /\ InitStore
    /\ rate_limiter = GovernorLayer(Config(DEFAULT_RATE_LIMIT, DEFAULT_RATE_LIMIT_BURST), T0)
    /\ call \in CallInputs

NextUtils ==
    \/ call_parse_ttl
    \/ call_validate_code
    \/ call_validate_url
    \/ call_generate_code
    \/ call_shorten
    \/ call_redirect
    \/ call_create_rate_limiter
    \/ call_visits_by_country

SpecUtils == InitUtils /\ [][NextUtils]_vars

(***************************************************************************)
(* Properties.  A property of a handler is stated of the state in which    *)
(* the handler has just answered: response is its answer and response.obs  *)
(* what it read on the way.                                                *)
(***************************************************************************)
\* the answer is a redirect
redirects(resp) == resp.status >= 300 /\ resp.status < 400

\* the lookup of a redirect or analytics request was answered by the store
looked_up(o) == o.now # 0

\* C1: a redirect of a code, at a time from the created_at to the expires_at
\* of the link that the lookup found, answers a redirect to the URL of the
\* request that created the link
C1_RoundTrip ==
    response.route = "redirect" =>
        LET o == response.obs
        IN  is_some(o.link) =>
               /\ is_some(o.expected)
               /\ (/\ unwrap(o.link).created_at <= o.now
                   /\ o.now <= unwrap(o.link).expires_at)
                  => /\ redirects(response)
                     /\ response.body.location = unwrap(o.expected).url

\* a link under a generated code is followed a second or more after its
\* creation
C1_Witness ==
    /\ response.route = "redirect"
    /\ redirects(response)
    /\ is_some(response.obs.expected)
    /\ ~unwrap(response.obs.expected).custom
    /\ response.obs.now > unwrap(response.obs.link).created_at

\* C2: a request with a custom code for which the existence check found a
\* link is answered 409, and the link of that code is afterwards the one
\* the check found
C2_CustomCodeConflict ==
    response.route = "shorten" =>
        LET o == response.obs
        IN  (o.custom /\ o.at_check # NoRows /\ o.cause # "unavailable") =>
               /\ response.status = 409
               /\ rows_of(links, o.code) = o.at_check

\* a custom code is refused that another URL holds
C2_Witness ==
    /\ response.route = "shorten"
    /\ response.status = 409
    /\ \E l \in response.obs.at_check : l.original_url # response.obs.url

\* C3: of the requests racing for one custom code that no link held when
\* they checked, the one whose insert meets the winner's link is answered 409
C3_RaceLoserConflict ==
    response.route = "shorten" =>
        LET o == response.obs
        IN  (/\ o.custom
             /\ o.at_check = NoRows
             /\ o.at_insert # NoRows
             /\ is_some(created[o.code])
             /\ unwrap(created[o.code]).custom) =>
               response.status = 409

\* C4: the table holds at most one link per code, and an insert that meets
\* a link of its code is answered 409 or 500 and leaves that link as it was
C4_OneLinkPerCode ==
    /\ \A l1, l2 \in links : l1.code = l2.code => l1 = l2
    /\ response.route = "shorten" =>
          LET o == response.obs
          IN  o.at_insert # NoRows =>
                 /\ response.status \in {409, 500}
                 /\ rows_of(links, o.code) = o.at_insert

\* an insert met a link of its code
C4_Witness ==
    /\ response.route = "shorten"
    /\ response.obs.cause = "duplicate"
    /\ rows_of(links, response.obs.code) # NoRows

\* a code is dead when no link is stored for it or the stored one is expired
Dead(c) == \A l \in rows_of(links, c) : now > l.expires_at

\* a create stores its link in this step
Inserts(c) ==
    \E p \in ShortenTasks :
       /\ shortenTask[p].pc = "insert"
       /\ shortenTask[p].code = c
       /\ shortenTask'[p].pc = "idle"

C5_NotFound ==
    response.route = "redirect" =>
        LET o == response.obs
        IN  (/\ looked_up(o)
             /\ is_some(o.link) => o.now > unwrap(o.link).expires_at) =>
               response.status = 404

C5_StaysDead == \A c \in Codes : (Dead(c) /\ ~Dead(c)') => Inserts(c)

\* C5: a redirect whose lookup found no link, or a link with now > expires_at
\* (swept or not), answers 404; and a dead code stays dead until a create
\* stores a link for it, so that every later redirect of it answers 404 too
C5_ExpiredNotFound == [](C5_NotFound) /\ [][C5_StaysDead]_vars

\* an expired link that is still stored is answered 404
C5_Witness ==
    /\ response.route = "redirect"
    /\ response.status = 404
    /\ is_some(response.obs.link)
    /\ rows_of(links, response.obs.code) # NoRows

\* C6: the expiry comparison is strict in every operation: at now = expires_at
\* a redirect answers a redirect to the URL, analytics does not answer 404 and
\* serves the report unless a read of the visits fails, and a sweep keeps the
\* link; at now > expires_at the redirect and analytics answer 404 and the
\* sweep deletes it
C6_StrictExpiry ==
    /\ response.route = "redirect" =>
          LET o == response.obs
          IN  is_some(o.link) =>
                 /\ o.now = unwrap(o.link).expires_at =>
                       /\ redirects(response)
                       /\ response.body.location = unwrap(o.link).original_url
                 /\ o.now > unwrap(o.link).expires_at => response.status = 404
    /\ response.route = "analytics" =>
          LET o == response.obs
          IN  is_some(o.link) =>
                 /\ o.now = unwrap(o.link).expires_at =>
                       \/ response.status = 200
                       \/ response.body = internal("Database error")
                 /\ o.now > unwrap(o.link).expires_at => response.status = 404
    /\ (response.route = "sweeper" /\ response.ok) =>
          \A l \in response.before :
             /\ l.expires_at = response.now => l \in links
             /\ l.expires_at < response.now => l \notin links

\* a sweep runs at the very second a stored link expires
C6_Witness ==
    /\ response.route = "sweeper"
    /\ response.ok
    /\ \E l \in response.before : l.expires_at = response.now

\* C7: a sweep at now leaves exactly the links with expires_at >= now, each as
\* it was, returns the number of links it deleted, and a second sweep at the
\* same now deletes nothing
C7_SweepExact ==
    (response.route = "sweeper" /\ response.ok) =>
        /\ links = {l \in response.before : l.expires_at >= response.now}
        /\ response.count = Cardinality(response.before) - Cardinality(links)
        /\ delete_expired_links(links, response.now) = [links |-> links, count |-> 0]

\* a sweep deletes one link and keeps another
C7_Witness ==
    /\ response.route = "sweeper"
    /\ response.ok
    /\ response.count > 0
    /\ links # NoRows

C8_Counted ==
    /\ \A c \in Codes : count_visits(visits, c) = redirected.link[c]
    /\ (response.route = "analytics" /\ response.status = 200) =>
          response.body.total_visits = redirected.link[response.obs.code]

C8_OnePerRedirect ==
    response'.route = "redirect" =>
        IF redirects(response') /\ response'.obs.visit_ok
        THEN \E v \in visits' \ visits :
                /\ v.code = response'.obs.code
                /\ visits' = visits \cup {v}
        ELSE visits' \subseteq visits

C9_VisitFailureSwallowed ==
    response.route = "redirect" =>
        LET o == response.obs
        IN  (/\ is_some(o.link)
             /\ o.now <= unwrap(o.link).expires_at
             /\ ~o.visit_ok) =>
               /\ response.body = permanent(unwrap(o.link).original_url)
               /\ \A r \in RedirectTasks : redirectTask[r] = Idle

\* the visit insert of a redirect failed
C9_Witness ==
    /\ response.route = "redirect"
    /\ redirects(response)
    /\ ~response.obs.visit_ok
    /\ count_visits(visits, response.obs.code) = 0

\* C10: the tokens of a key stay from 0 to the configured burst size; and of
\* the creation requests of one key decided with no time gone since its
\* bucket was full, the first burst-size many are admitted and each further
\* one is answered 429, in whatever order the requests of the clients arrive
\* and are decided
C10_BurstThenLimited ==
    LET burst == rate_limiter.settings.rate_limit_burst
    IN  /\ \A k \in ClientKeys :
              /\ rate_limiter.buckets[k].tokens >= 0
              /\ rate_limiter.buckets[k].tokens <= burst
        /\ (response.route = "rate_limiter" /\ response.path \in RateLimitedRoutes) =>
              LET w == rate_limiter.window[response.key]
              IN  w.start = response.now =>
                     /\ w.admitted <= burst
                     /\ response.admitted => rate_limiter.buckets[response.key].tokens
                                                = burst - w.admitted
                     /\ ~response.admitted => w.admitted = burst

\* with the default settings, two requests of a key were admitted and the
\* third, at the same second, is answered 429
C10_Witness ==
    /\ rate_limiter.settings = Config(DEFAULT_RATE_LIMIT, DEFAULT_RATE_LIMIT_BURST)
    /\ response.route = "rate_limiter"
    /\ response.status = 429
    /\ rate_limiter.window[response.key] = [start |-> response.now, admitted |-> 2]

\* the call of fn has returned
returned(fn) == call.fn = fn /\ call.done

\* the seconds of a unit, 0 for what is not a unit
unit_seconds(u) ==
    CASE u = "s" -> 1 [] u = "m" -> 60 [] u = "h" -> 3600 [] u = "d" -> 86400
      [] OTHER -> 0

\* what a TTL text is worth: the product, when the text is a number and a
\* unit and the product lies in [300, 2592000]
ttl_seconds(a) ==
    IF a.parses /\ ~a.huge /\ a.unit \in {"s", "m", "h", "d"}
       /\ a.n * unit_seconds(a.unit) >= 300 /\ a.n * unit_seconds(a.unit) <= 2592000
    THEN Some(a.n * unit_seconds(a.unit))
    ELSE None

\* C11: parse_ttl returns the product of the number and the unit's seconds
\* exactly when the product lies in [300, 2592000], and returns an error for
\* every other text
C11_ParseTtl ==
    returned("parse_ttl") =>
        IF is_some(ttl_seconds(call.arg))
        THEN call.ret = Ok(unwrap(ttl_seconds(call.arg)))
        ELSE call.ret.tag = "Err"


\* the ASCII letters and the digits
alphanumeric ==
    {"a","b","c","d","e","f","g","h","i","j","k","l","m",
     "n","o","p","q","r","s","t","u","v","w","x","y","z",
     "A","B","C","D","E","F","G","H","I","J","K","L","M",
     "N","O","P","Q","R","S","T","U","V","W","X","Y","Z",
     "0","1","2","3","4","5","6","7","8","9"}

\* C12: validate_code accepts a code exactly when it has 1 to 32 characters,
\* each of them an ASCII letter, a digit, "_" or "-"
C12_ValidateCode ==
    returned("validate_code") =>
        (call.ret <=>
            /\ Len(call.arg) >= 1
            /\ Len(call.arg) <= 32
            /\ \A i \in 1..Len(call.arg) : call.arg[i] \in alphanumeric \cup {"_", "-"})

\* a code of 32 characters has been accepted
C12_Witness ==
    returned("validate_code") /\ call.ret /\ Len(call.arg) = 32

\* C13: validate_url rejects a URL exactly when its prefix is neither http://
\* nor https://, or its host is localhost or begins with 127.0.0.1, whatever
\* the case of the host; the rest of the URL does not matter
C13_ValidateUrl ==
    returned("validate_url") =>
        LET host == to_lowercase(call.arg.host)
        IN  call.ret <=>
                /\ call.arg.scheme \in {<<"h","t","t","p",":","/","/">>,
                                        <<"h","t","t","p","s",":","/","/">>}
                /\ host # <<"l","o","c","a","l","h","o","s","t">>
                /\ ~starts_with(host, <<"1","2","7",".","0",".","0",".","1">>)

\* C14: a code returned by generate_code has 6, 7 or 8 characters, each of
\* them a digit or an ASCII letter, and validate_code accepts it
C14_GeneratedCode ==
    returned("generate_code") =>
        /\ Len(call.ret) \in {6, 7, 8}
        /\ \A i \in 1..Len(call.ret) : call.ret[i] \in alphanumeric
        /\ validate_code(call.ret)

\* a code of 8 characters has been generated from the last index of the
\* alphabet
C14_Witness ==
    returned("generate_code") /\ Len(call.ret) = 8 /\ call.ret[1] = "z"

\* C15: the Link stored by a creation that answered 200 has an expires_at
\* that is its created_at plus the TTL of the request (300 for "5m", 604800
\* without a TTL), and the expires_at of the response is the stored one
C15_ExpiryFromCreation ==
    (response.route = "shorten" /\ response.status = 200) =>
        \A l \in response.obs.after :
            /\ response.obs.ttl_seconds \in {300, 604800}
            /\ l.expires_at - l.created_at = response.obs.ttl_seconds
            /\ response.body.expires_at = l.expires_at

\* C16: with a token configured, POST /shorten answers 401 and goes no
\* further, whatever the body, unless the Authorization header is "Bearer "
\* followed by the token; with that header it does what validation and the
\* existence check decide
C16_BearerToken ==
    (returned("shorten") /\ is_some(auth_token)) =>
        IF call.arg.header = Some(<<"B","e","a","r","e","r"," ">> \o unwrap(auth_token))
        THEN /\ call.ret.resp.status # 401
             /\ call.ret \in create_link(links, call.arg.req)
        ELSE /\ call.ret.resp.status = 401
             /\ call.ret.task.pc = "idle"

\* a request with a valid body and another token has been answered 401
C16_Witness ==
    /\ returned("shorten")
    /\ call.arg.header = Some(BEARER \o <<"x">>)
    /\ validate_url(call.arg.req.url)
    /\ call.ret.resp.status = 401

\* an analytics request that got the answer of the lookup is answered 404
\* when there is no link or the link has expired at the time read, and else
\* with the report on the link (or the failure of a later read of the store)
C17_NotFoundOrReport ==
    (response.route = "analytics" /\ looked_up(response.obs)) =>
        LET o == response.obs
        IN  IF ~is_some(o.link) \/ o.now > unwrap(o.link).expires_at
            THEN response.status = 404
            ELSE \/ /\ response.status = 200
                    /\ response.body.code = o.code
                    /\ response.body.original_url = unwrap(o.link).original_url
                    /\ response.body.expires_at = unwrap(o.link).expires_at
                 \/ /\ response.status = 500
                    /\ response.body.error = "Database error"

\* a step of an analytics request changes neither table
C17_ReadsOnly ==
    (analyticsTask' # analyticsTask \/ response'.route = "analytics")
        => (links' = links /\ visits' = visits)

\* C17: analytics answers NotFound when no link is stored under the code or
\* the time read is after the link's expires_at, and the report otherwise;
\* none of its steps changes the links or the visits
C17_AnalyticsReads == [](C17_NotFoundOrReport) /\ [][C17_ReadsOnly]_vars

\* an analytics request has found an expired link, which is still stored
C17_Witness ==
    /\ response.route = "analytics"
    /\ response.status = 404
    /\ is_some(response.obs.link)
    /\ unwrap(response.obs.link) \in links

\* the sum of the counts of the rows
RECURSIVE sum_of_counts(_)
sum_of_counts(rows) ==
    IF Len(rows) = 0 THEN 0 ELSE Head(rows)[2] + sum_of_counts(Tail(rows))

\* C18: visits_by_country answers one row per country value among the visits
\* of the code, no country (NULL) being a value of its own, each with the
\* number of those visits, in an order of non-increasing counts; the counts
\* add up to count_visits.  Visits from US, ID and ID give (ID, 2), (US, 1)
C18_VisitsByCountry ==
    returned("visits_by_country") =>
        LET mine == {v \in call.arg.visits : v.code = call.arg.code}
            rows == call.ret
        IN  /\ \A v \in mine : \E i \in DOMAIN rows : rows[i][1] = v.country
            /\ \A i \in DOMAIN rows :
                   /\ rows[i][2] = Cardinality({v \in mine : v.country = rows[i][1]})
                   /\ rows[i][2] >= 1
                   /\ \A j \in DOMAIN rows : rows[j][1] = rows[i][1] => j = i
                   /\ i > 1 => rows[i - 1][2] >= rows[i][2]
            /\ sum_of_counts(rows) = count_visits(call.arg.visits, call.arg.code)
            /\ {v.country : v \in mine} = {Some("US"), Some("ID")}
               /\ Cardinality({v \in mine : v.country = Some("ID")}) = 2
               /\ Cardinality(mine) = 3
               => rows = <<<<Some("ID"), 2>>, <<Some("US"), 1>>>>

\* the rows of three groups, one of them of the visits without a country,
\* have been answered
C18_Witness ==
    /\ returned("visits_by_country")
    /\ Len(call.ret) = 3
    /\ \E i \in DOMAIN call.ret : call.ret[i] = <<None, 2>>

\* a link that a step removes from the store has expired
C19_RemovedIsExpired ==
    \A l \in links : l \notin links' => now > l.expires_at

\* C19: no step of a redirect, a creation or the sweep removes a link that is
\* live when it is removed; in particular the delete of a redirect that
\* found an expired link of a code does not remove a link stored under the
\* code after that redirect looked it up
C19_NoLiveLinkDeleted == [][C19_RemovedIsExpired]_vars

\* a request still in the loop has made fewer than MAX_ATTEMPTS attempts, and
\* none has made more
C20_AtMostTen ==
    \A p \in ShortenTasks :
        /\ shortenTask[p].pc = "generate" => shortenTask[p].attempts < MAX_ATTEMPTS
        /\ shortenTask[p].pc = "insert" => shortenTask[p].attempts <= MAX_ATTEMPTS

\* a step of the loop: it goes round again only past a candidate that is
\* stored, it leaves with a candidate that is not stored, and it gives up
\* only on its tenth attempt, every candidate being stored, without a change
\* to the links
C20_Attempt ==
    \A p \in ShortenTasks :
        /\ (shortenTask'[p].pc = "generate" /\ shortenTask'[p] # shortenTask[p])
           => /\ shortenTask'[p].attempts =
                     (IF shortenTask[p].pc = "idle" THEN 0 ELSE shortenTask[p].attempts) + 1
              /\ \E c \in Codes : rows_of(links, c) # {}
        /\ (/\ shortenTask[p].pc \in {"idle", "generate"}
            /\ shortenTask'[p].pc = "insert"
            /\ ~shortenTask'[p].custom)
           => /\ rows_of(links, shortenTask'[p].code) = {}
              /\ links' = links
        /\ (/\ shortenTask'[p] # shortenTask[p]
            /\ response'.route = "shorten"
            /\ response'.status = 500
            /\ response'.body.error =
                   "Failed to generate unique code after multiple attempts")
           => /\ shortenTask[p].pc = "generate"
              /\ shortenTask[p].attempts = MAX_ATTEMPTS - 1
              /\ \E c \in Codes : rows_of(links, c) # {}
              /\ shortenTask'[p].pc = "idle"
              /\ links' = links

\* C20: without a custom code a creation makes at most 10 attempts of
\* generating a code and checking it, goes on with the first candidate whose
\* check found nothing, and answers 500, storing nothing, when the tenth
\* candidate is stored too
C20_GenerateLoop == [](C20_AtMostTen) /\ [][C20_Attempt]_vars

\* ten candidates were stored already: the creation has given up
C20_Witness ==
    /\ response.route = "shorten"
    /\ response.status = 500
    /\ response.body.error = "Failed to generate unique code after multiple attempts"
    /\ links # {}

\* a turn of the sweeper's loop has just run
swept == response.route = "sweeper"

\* C21: the sweeper never stops.  After any turn of its loop, failed or not,
\* the task is at its timer again; a failed turn is followed by a later turn
\* that runs the bulk delete again.
C21_SweeperNeverStops ==
    /\ [](cleanupTask.pc = "tick")
    /\ (swept /\ ~response.ok) ~> (response = NoResponse)
    /\ (response = NoResponse) ~> swept

\* a turn has failed, with expired links still in the store
C21_Witness ==
    /\ swept
    /\ ~response.ok
    /\ cleanupTask.pc = "tick"
    /\ \E l \in links : response.now > l.expires_at

\* C22: while the sweeper keeps ticking and its store call succeeds again and
\* again, every link whose expires_at is in the past is eventually absent
\* from the store, without any redirect.
C22_ExpiredEventuallyDeleted ==
    \A c \in Codes : \A l \in StoredLinks(c) :
        (l \in links /\ now > l.expires_at) ~> (l \notin links)

\* a sweep has removed the expired links, and no redirect was ever issued
C22_Witness ==
    /\ swept
    /\ response.ok
    /\ response.count > 0
    /\ \E l \in response.before : now > l.expires_at /\ l \notin links
    /\ requests = 0

\* the responses GET /{code} may get over the store tbl: the handler run to its end
resolve(tbl, vs, code) ==
    LET outs == redirect_lookup(tbl, code, created)
        ends(o) ==
            IF o.task.pc = "delete"
            THEN {d.out.resp.body : d \in redirect_expired(tbl, vs, o.task)}
            ELSE IF o.task.pc = "visit"
            THEN {d.out.resp.body :
                     d \in redirect_visit(tbl, vs, next_visit_id, o.task, None)}
            ELSE {o.resp.body}
    IN  UNION {ends(o) : o \in outs}

\* C23: a redirect of a code whose link is expired but still stored gets the
\* responses (status and body) that a redirect of the same code gets when the
\* link is absent.
C23_ExpiredLikeAbsent ==
    \A l \in links :
        is_expired(now_unix, l) =>
            resolve(links, visits, l.code)
              = resolve(links \ {l}, cascade(visits, links \ {l}), l.code)

C24_CreateAddsOne ==
    (response = NoResponse /\ response'.route = "shorten") =>
        IF response'.status = 200
        THEN \E l \in links' :
                /\ l \notin links
                /\ l.code = response'.body.code
                /\ l.expires_at = response'.body.expires_at
                /\ links' = links \cup {l}
        ELSE links' = links

C24_LinksImmutable ==
    \A l \in links : \A k \in links' : k.code = l.code => k = l

\* C24: the step of a creation that answers 200 adds exactly one link, the
\* one of the answered code, and leaves the other links as they are; a step
\* of a creation that answers an error adds no link; and no step of any
\* operation changes a field of a link whose code keeps its row.
C24_Frame == [][C24_CreateAddsOne /\ C24_LinksImmutable]_vars

\* a creation has answered 200 over a store that held another link
C24_Witness ==
    /\ response.route = "shorten"
    /\ response.status = 200
    /\ \E l \in links : l.code # response.body.code
    /\ \E l \in links : l.code = response.body.code

\* C25: a redirect of an empty code or of a code of more than 32 characters
\* has one outcome: 404 "Short link not found", with no lookup made and
\* nothing left to do on the store.
C25_NoLookup ==
    (returned("redirect") /\ (Len(call.arg.code) = 0 \/ Len(call.arg.code) > 32)) =>
        /\ call.ret # {}
        /\ \A o \in call.ret :
              /\ o.task = Idle
              /\ o.resp.route = "redirect"
              /\ o.resp.body = not_found("Short link not found")
              /\ ~looked_up(o.resp.obs)

\* a code of 33 characters was asked for over a store that holds a link
C25_Witness ==
    /\ returned("redirect")
    /\ Len(call.arg.code) = 33
    /\ call.arg.links # {}
    /\ \E o \in call.ret : o.resp.status = 404

\* C26: for every rate_limit >= 1 create_rate_limiter builds a limiter whose
\* period, the seconds between two tokens, is 60 / rate_limit, so that
\* rate_limit periods make a minute, and whose bucket holds burst_size tokens.
C26_RatePerMinute ==
    returned("create_rate_limiter") =>
        /\ is_some(call.ret)
        /\ unwrap(call.ret).per_second * call.arg.rate_limit = 60
        /\ unwrap(call.ret).burst_size = call.arg.rate_limit_burst

\* C27: a request of the redirect route or of the analytics route is never
\* answered 429 by the limiter and takes no token: the step that passes it
\* on leaves every bucket as it was.
C27_Unlimited ==
    (response = NoResponse /\ response'.route = "rate_limiter"
       /\ response'.path \in {"/{code}", "/analytics/{code}"}) =>
        /\ response'.admitted
        /\ response'.status # 429
        /\ rate_limiter'.buckets = rate_limiter.buckets

C27_OnlyCreationLimited == [][C27_Unlimited]_vars

\* a redirect or analytics request was passed on for a client whose bucket
\* is empty
C27_Witness ==
    /\ response.route = "rate_limiter"
    /\ response.path \in {"/{code}", "/analytics/{code}"}
    /\ response.admitted
    /\ rate_limiter.buckets[response.key].tokens = 0

\* C28 as claimed: no step removes a visit, whatever becomes of its link
C28_VisitsOutliveLinks == [][\A v \in visits : v \in visits']_vars

C28_WithLink == \A v \in visits : rows_of(links, v.code) # NoRows

C28_RemovedWithLink ==
    /\ \A v \in visits : \A w \in visits' : w.id = v.id => w = v
    /\ \A v \in visits \ visits' :
          rows_of(links, v.code) # NoRows /\ rows_of(links', v.code) = NoRows
    /\ \A c \in Codes :
          (rows_of(links, c) # NoRows /\ rows_of(links', c) = NoRows) =>
              count_visits(visits', c) = 0

\* C28: no step changes a visit that stays, and a visit goes only in the
\* step that deletes the link of its code, lazily or in the sweep, which
\* removes every visit of that code: a visit is in the store only while a
\* link of its code is.
C28_VisitsGoWithLink == [](C28_WithLink) /\ [][C28_RemovedWithLink]_vars

\* a link whose redirects had recorded visits was deleted, and its visits
\* with it
C28_Witness ==
    /\ response.route \in {"sweeper", "redirect"}
    /\ \E c \in Codes :
          /\ redirected.code[c] > 0
          /\ rows_of(links, c) = NoRows
          /\ count_visits(visits, c) = 0

\* C29: when the text is a number that parses as a 64-bit integer and one of
\* the units s, m, h, d, parse_ttl returns the product of the two if it lies
\* in [300, 2592000] and an error if not: the call never panics, and a
\* product beyond 64 bits is never taken for a value in the range.
C29_ExactProduct ==
    (returned("parse_ttl") /\ call.arg.parses
       /\ call.arg.unit \in {"s", "m", "h", "d"}) =>
        /\ call.ret # Panicked
        /\ IF is_some(ttl_seconds(call.arg))
           THEN call.ret = Ok(unwrap(ttl_seconds(call.arg)))
           ELSE call.ret.tag = "Err"

C30_Create ==
    response.route = "shorten" =>
        LET o == response.obs
        IN  /\ (/\ o.custom
                /\ o.cause # "unavailable"
                /\ \E l \in o.at_check : is_expired(now_unix, l)) =>
                   /\ response.status = 409
                   /\ rows_of(links, o.code) = o.at_check
            /\ response.status = 409 =>
                   /\ o.at_check # NoRows
                   /\ rows_of(links, o.code) # NoRows
            /\ (/\ o.custom
                /\ response.status \in {200, 409, 500}
                /\ o.cause = ""
                /\ o.at_check = NoRows
                /\ o.at_insert = NoRows) =>
                   /\ response.status = 200
                   /\ rows_of(links, o.code) =
                         {Link(o.code, o.url, response.body.expires_at, now_unix)}

C30_Resolve ==
    (response.route = "redirect" /\ redirects(response)) =>
        /\ is_some(response.obs.expected)
        /\ response.body.location = unwrap(response.obs.expected).url
        /\ response.body.location = unwrap(response.obs.link).original_url

\* C30: the existence check of a custom code takes no account of expiry.  A
\* creation whose check finds a link of its code, expired or not, is answered
\* 409 and leaves the link; 409 is answered only while a link of the code is
\* stored; a creation whose check finds none, and whose insert the store
\* carries out, is answered 200 and its link, with its URL, is the one stored;
\* and a redirect of a live link goes to the URL of the creation that stored
\* it.
C30_CodeReuse == C30_Create /\ C30_Resolve

\* the code of the link that had expired is followed to the URL of the link
\* created under it after the first was removed
C30_Witness ==
    /\ response.route = "redirect"
    /\ redirects(response)
    /\ response.obs.code = GEN_A
    /\ response.body.location = URL_A
    /\ unwrap(response.obs.link).created_at > T0
    /\ unwrap(response.obs.expected).custom

====
